---- MODULE Spec2Model ----
(***************************************************************************)
(* Model of the profiling session lifecycle and upload pipeline of         *)
(* src/src/index.ts: the global configuration and init, the self-          *)
(* rescheduling CPU loop, the interval-timer heap session and              *)
(* uploadProfile with its error handler.                                   *)
(*                                                                         *)
(* The JavaScript event loop is modelled as interleaving of atomic         *)
(* handlers: every action is one synchronous run-to-completion block       *)
(* (an exported function up to its first await, a promise callback, a      *)
(* timer or setImmediate callback).  The external capabilities (profile    *)
(* capture, encoding, HTTP transport, source-mapper construction) are      *)
(* opaque: each pending call may settle in any order and with any of its   *)
(* outcomes, or never.                                                     *)
(***************************************************************************)
EXTENDS Bags, FiniteSets, Integers, Sequences, TLC

\* ------------------------------------------------------------- bounds
MaxLoops == 2        \* CPU loops (startCpuProfiling closures) alive at once
MaxTimers == 2       \* interval timers alive (or still referenced) at once
MaxStarting == 2     \* startHeapProfiling calls suspended at their await
MaxUploads == 2      \* uploadProfile calls in flight at once
MaxSmPending == 2    \* init's SourceMapper.create promises pending at once

\* ---------------------------------------------------------- constants
SAMPLERATE == 100
DEFAULT_SERVER == "http://localhost:4040"
undefined == "undefined"
NoTimer == 0         \* the value of heapProfilingTimer while no handle is stored

Loops == 1..MaxLoops
TimerIds == 1..MaxTimers

VARIABLES
  config,                 \* the module-level PyroscopeConfig object
  lastInit,               \* <<c>> for the argument c of the most recent init call,
                          \* <<>> before the first one (history)
  smPending,              \* bag of paths whose SourceMapper.create (init) is pending
  isCpuProfilingRunning,  \* the CPU running flag
  capturing,              \* per loop: the pprof.time.profile calls in flight,
                          \* each recorded as the sourceMapper it was given
  scheduled,              \* per loop: pending setImmediate(profilingRound) callbacks
  heapStarting,           \* startHeapProfiling calls awaiting SourceMapper.create
  timers,                 \* interval timers that are set and not cleared
  heapProfilingTimer,     \* the module-level timer handle, or NoTimer
  uploads,                \* bag of uploadProfile calls in flight
  lastCpuCall,            \* the last CPU lifecycle call made: "none", "start", "stop"
  lastHeapCall,           \* the last heap lifecycle call made: "none", "start",
                          \* "stop" (a handle was cleared), "stopIdle" (none was)
  step,                   \* the handler that ran last (history); arg is the loop of
                          \* a resolved capture, the error of a failed POST, else 0
  request,                \* URL of the POST issued by the last handler, or undefined
  settled,                \* how the uploadProfile call ended that the last handler
                          \* completed: "resolved", "rejected", or undefined
  logged                  \* the log entries written by the last handler

vars == <<config, lastInit, smPending, isCpuProfilingRunning, capturing, scheduled,
          heapStarting, timers, heapProfilingTimer, uploads, lastCpuCall,
          lastHeapCall, step, request, settled, logged>>

\* the program's own state, without the observation variables
cpuVars == <<isCpuProfilingRunning, capturing, scheduled>>
heapVars == <<heapStarting, timers, heapProfilingTimer>>
progVars == <<config, smPending, cpuVars, heapVars, uploads>>
calls == <<lastInit, lastCpuCall, lastHeapCall>>

\* ------------------------------------------------------------- inputs
\* A tag list is a JavaScript object with string keys: a sequence of
\* <<key, value>> pairs in insertion order (the order Object.keys gives).
TagLists == { <<>>, << <<"env", "prod">> >>,
              << <<"env", "prod">>, <<"region", "eu">> >> }
Servers == { "http://example:4040", "http://pyroscope:4040" }
Names == { "svc" }
SourceMapPaths == { undefined, "maps/a", "maps/b" }

Config(server, name, paths, autoStart, tags) ==
  [server |-> server, name |-> name, sourceMapPath |-> paths,
   autoStart |-> autoStart, tags |-> tags]

\* the configurations used where the url is explored
UrlConfigs ==
  { Config(s, n, undefined, a, t) : s \in Servers, n \in Names, a \in BOOLEAN,
                                    t \in TagLists }

\* the configurations used where the lifecycle, not the URL, is explored
LifeConfigs ==
  { Config("http://example:4040", "svc", undefined, a, << <<"env", "prod">> >>)
      : a \in BOOLEAN }

\* the configurations used where the source mapper is explored
MapperConfigs ==
  { Config("http://example:4040", "svc", p, FALSE, <<>>) : p \in SourceMapPaths }

\* the value SourceMapper.create(paths) resolves to
SourceMapper(paths) == "sm:" \o paths

\* ------------------------------------------------------ initial state
Init ==
  /\ config = [server |-> DEFAULT_SERVER, name |-> "nodejs",
               sourceMapPath |-> undefined, sm |-> undefined, tags |-> <<>>]
  /\ lastInit = <<>>
  /\ smPending = EmptyBag
  /\ isCpuProfilingRunning = FALSE
  /\ capturing = [l \in Loops |-> <<>>]
  /\ scheduled = [l \in Loops |-> 0]
  /\ heapStarting = 0
  /\ timers = {}
  /\ heapProfilingTimer = NoTimer
  /\ uploads = EmptyBag
  /\ lastCpuCall = "none"
  /\ lastHeapCall = "none"
  /\ step = [op |-> "load", arg |-> 0]
  /\ request = undefined
  /\ settled = undefined
  /\ logged = <<>>

\* what a handler leaves behind for observation
Observe(op, arg, req, res, entries) ==
  /\ step' = [op |-> op, arg |-> arg]
  /\ request' = req
  /\ settled' = res
  /\ logged' = entries

\* ---------------------------------------------------- upload pipeline
RECURSIVE ArrayToString(_)
\* Array.prototype.toString, as the template literal applies it to tagList
ArrayToString(a) ==
  IF a = <<>> THEN ""
  ELSE IF Len(a) = 1 THEN a[1]
  ELSE a[1] \o "," \o ArrayToString(Tail(a))

tagList(tags) == [i \in 1..Len(tags) |-> tags[i][1] \o "=" \o tags[i][2]]

\* the url uploadProfile builds from the global configuration
UploadUrl(cfg) ==
  cfg.server \o "/ingest?name=" \o cfg.name \o "{" \o ArrayToString(tagList(cfg.tags))
    \o "}&sampleRate=" \o ToString(SAMPLERATE)

\* the errors axios rejects with: the server answered outside 2xx (response
\* and request are set), the request was sent and nothing came back (request
\* only), the request could not be set up (neither)
AxiosErrors ==
  { [response |-> TRUE, request |-> TRUE, data |-> "internal error",
     message |-> "Request failed with status code 500"],
    [response |-> FALSE, request |-> TRUE, data |-> "",
     message |-> "socket hang up"],
    [response |-> FALSE, request |-> FALSE, data |-> "",
     message |-> "Invalid URL"] }

\* handleError with its first two tests in the other order (mutant)
handleErrorRequestFirst(error) ==
  IF error.request
    THEN << "Error when ingesting data to server: " \o error.message >>
    ELSE IF error.response
      THEN << "Pyroscope received error while ingesting data to server", error.data >>
      ELSE << "Error " \o error.message >>

\* the log entries handleError writes; it returns normally in every branch
handleError(error) ==
  IF error.response
    THEN << "Pyroscope received error while ingesting data to server", error.data >>
    ELSE IF error.request
      THEN << "Error when ingesting data to server: " \o error.message >>
      ELSE << "Error " \o error.message >>

Upload(src, owner, stage) == [src |-> src, owner |-> owner, stage |-> stage]
InFlight == BagToSet(uploads)
One(u) == SetToBag({u})

\* uploadProfile(profile) up to its await of pprof.encode
uploadProfile(src, owner) == uploads (+) One(Upload(src, owner, "encode"))

\* what the caller of uploadProfile logs once the call has resolved
Uploaded(u) ==
  IF u.src = "cpu" THEN << "CPU Profile has been uploaded" >>
                   ELSE << "Heap profile uploaded..." >>

\* pprof.encode resolved: the form and the url are built and the POST is issued
EncodeResolved(u) ==
  /\ u \in InFlight /\ u.stage = "encode"
  /\ uploads' = (uploads (-) One(u)) (+) One([u EXCEPT !.stage = "post"])
  /\ Observe("encoded", 0, UploadUrl(config), undefined,
             << "Sending data to " \o UploadUrl(config) >>)
  /\ UNCHANGED <<config, calls, smPending, cpuVars, heapVars>>

\* uploadProfile with the catch around its whole body: an encoding failure is
\* handled like a transport failure and the call resolves (mutant)
EncodeRejectedCaught(u) ==
  /\ u \in InFlight /\ u.stage = "encode"
  /\ uploads' = uploads (-) One(u)
  /\ Observe("encodeFailed", 0, undefined, "resolved", << "Error encode failed" >>)
  /\ UNCHANGED <<config, calls, smPending, cpuVars, heapVars>>

\* pprof.encode rejected: the await throws inside uploadProfile, whose promise
\* rejects; neither caller has a rejection handler on its chain
EncodeRejected(u) ==
  /\ u \in InFlight /\ u.stage = "encode"
  /\ uploads' = uploads (-) One(u)
  /\ Observe("encodeFailed", 0, undefined, "rejected", <<>>)
  /\ UNCHANGED <<config, calls, smPending, cpuVars, heapVars>>

\* axios resolved
PostResolved(u) ==
  /\ u \in InFlight /\ u.stage = "post"
  /\ uploads' = uploads (-) One(u)
  /\ Observe("posted", 0, undefined, "resolved", Uploaded(u))
  /\ UNCHANGED <<config, calls, smPending, cpuVars, heapVars>>

\* axios rejected: .catch(handleError) turns it into a resolved promise
PostRejected(u, error) ==
  /\ u \in InFlight /\ u.stage = "post"
  /\ uploads' = uploads (-) One(u)
  /\ Observe("postFailed", error, undefined, "resolved",
             handleError(error) \o Uploaded(u))
  /\ UNCHANGED <<config, calls, smPending, cpuVars, heapVars>>

\* ----------------------------------------------------------- CPU loop
Remove(s, i) == SubSeq(s, 1, i - 1) \o SubSeq(s, i + 1, Len(s))

\* a loop whose closure can never run again: nothing in flight, nothing scheduled
FreeLoops == { l \in Loops : capturing[l] = <<>> /\ scheduled[l] = 0 }
NewLoop == CHOOSE l \in FreeLoops : \A m \in FreeLoops : l <= m

\* profilingRound that schedules the next round itself, when it starts its
\* capture, instead of leaving that to the capture's completion (mutant)
profilingRoundEager(l, sch) ==
  /\ capturing' = [capturing EXCEPT ![l] = Append(@, config.sm)]
  /\ scheduled' = [sch EXCEPT ![l] = @ + 1]

\* the body of profilingRound in loop l: requests a capture with the current
\* source mapper; sch is the scheduled map once the running callback is removed
profilingRound(l, sch) ==
  /\ capturing' = [capturing EXCEPT ![l] = Append(@, config.sm)]
  /\ scheduled' = sch

\* the then-callback with the upload inside the running test (mutant)
CpuProfileCollectedIfRunning(l) ==
  /\ scheduled' = IF isCpuProfilingRunning
                    THEN [scheduled EXCEPT ![l] = @ + 1]
                    ELSE scheduled
  /\ uploads' = IF isCpuProfilingRunning THEN uploadProfile("cpu", l) ELSE uploads

\* the then-callback that leaves the reschedule to the end of the upload (mutant)
CpuProfileCollectedThenUpload(l) ==
  /\ scheduled' = scheduled
  /\ uploads' = uploadProfile("cpu", l)

\* the then-callback that reschedules without testing the flag (mutant)
CpuProfileCollectedAlways(l) ==
  /\ scheduled' = [scheduled EXCEPT ![l] = @ + 1]
  /\ uploads' = uploadProfile("cpu", l)

\* the first then-callback of a round: reschedule if running, then upload
CpuProfileCollected(l) ==
  /\ scheduled' = IF isCpuProfilingRunning
                    THEN [scheduled EXCEPT ![l] = @ + 1]
                    ELSE scheduled
  /\ uploads' = uploadProfile("cpu", l)

\* startCpuProfiling with an already-running test like the heap session's (mutant)
CpuStartGuarded ==
  /\ FreeLoops # {}
  /\ isCpuProfilingRunning' = TRUE
  /\ IF isCpuProfilingRunning
       THEN UNCHANGED <<capturing, scheduled>>
       ELSE profilingRound(NewLoop, scheduled)
  /\ lastCpuCall' = "start"

\* the synchronous effect of startCpuProfiling(): flag set, first round run
CpuStart ==
  /\ FreeLoops # {}
  /\ isCpuProfilingRunning' = TRUE
  /\ profilingRound(NewLoop, scheduled)
  /\ lastCpuCall' = "start"

startCpuProfiling ==
  /\ CpuStart
  /\ Observe("startCpuProfiling", 0, undefined, undefined,
             << "Pyroscope has started CPU Profiling", "Collecting CPU Profile" >>)
  /\ UNCHANGED <<config, lastInit, lastHeapCall, smPending, heapVars, uploads>>

\* a setImmediate(profilingRound) callback of loop l runs
RoundBegin(l) ==
  /\ scheduled[l] > 0
  /\ profilingRound(l, [scheduled EXCEPT ![l] = @ - 1])
  /\ Observe("profilingRound", 0, undefined, undefined, << "Collecting CPU Profile" >>)
  /\ UNCHANGED <<config, calls, smPending, isCpuProfilingRunning, heapVars, uploads>>

\* the i-th capture in flight of loop l resolves with a profile
CaptureResolved(l, i) ==
  /\ i \in 1..Len(capturing[l])
  /\ BagCardinality(uploads) < MaxUploads
  /\ capturing' = [capturing EXCEPT ![l] = Remove(@, i)]
  /\ CpuProfileCollected(l)
  /\ Observe("captured", l, undefined, undefined,
             << "CPU Profile collected", "CPU Profile uploading" >>)
  /\ UNCHANGED <<config, calls, smPending, isCpuProfilingRunning, heapVars>>

\* the i-th capture in flight of loop l rejects: no callback of the chain runs
CaptureRejected(l, i) ==
  /\ i \in 1..Len(capturing[l])
  /\ capturing' = [capturing EXCEPT ![l] = Remove(@, i)]
  /\ Observe("captureFailed", 0, undefined, undefined, <<>>)
  /\ UNCHANGED <<config, calls, smPending, isCpuProfilingRunning, scheduled,
                 heapVars, uploads>>

stopCpuProfiling ==
  /\ isCpuProfilingRunning' = FALSE
  /\ lastCpuCall' = "stop"
  /\ Observe("stopCpuProfiling", 0, undefined, undefined, <<>>)
  /\ UNCHANGED <<config, lastInit, lastHeapCall, smPending, capturing, scheduled,
                 heapVars, uploads>>

\* ------------------------------------------------------- heap session
\* a timer identity no live timer and no tick still in flight carries
FreeTimers ==
  { t \in TimerIds : t \notin timers
                     /\ \A u \in InFlight : ~(u.src = "heap" /\ u.owner = t) }
NewTimer == CHOOSE t \in FreeTimers : \A m \in FreeTimers : t <= m

\* startHeapProfiling without its already-running test (mutant)
HeapStartUnguarded ==
  /\ heapStarting < MaxStarting
  /\ heapStarting' = heapStarting + 1
  /\ lastHeapCall' = "start"
  /\ UNCHANGED <<timers, heapProfilingTimer>>

\* startHeapProfiling() up to its await: returns false when a handle is
\* stored, else suspends on SourceMapper.create([process.cwd()])
HeapStart ==
  /\ heapProfilingTimer = NoTimer => heapStarting < MaxStarting
  /\ heapStarting' = IF heapProfilingTimer # NoTimer THEN heapStarting
                                                     ELSE heapStarting + 1
  /\ lastHeapCall' = "start"
  /\ UNCHANGED <<timers, heapProfilingTimer>>

HeapStartLog ==
  IF heapProfilingTimer # NoTimer THEN <<>>
                                  ELSE << "Pyroscope has started heap profiling" >>

startHeapProfiling ==
  /\ HeapStart
  /\ Observe("startHeapProfiling", 0, undefined, undefined, HeapStartLog)
  /\ UNCHANGED <<config, lastInit, lastCpuCall, smPending, cpuVars, uploads>>

\* the rest of startHeapProfiling once its source mapper is there: the heap
\* sampler is started, the interval timer is set and stored in the handle
HeapMapperResolved ==
  /\ heapStarting > 0
  /\ FreeTimers # {}
  /\ heapStarting' = heapStarting - 1
  /\ timers' = timers \cup {NewTimer}
  /\ heapProfilingTimer' = NewTimer
  /\ Observe("heapStarted", 0, undefined, undefined, <<>>)
  /\ UNCHANGED <<config, calls, smPending, cpuVars, uploads>>

\* SourceMapper.create rejects: startHeapProfiling ends there, rejected
HeapMapperRejected ==
  /\ heapStarting > 0
  /\ heapStarting' = heapStarting - 1
  /\ Observe("heapStartFailed", 0, undefined, undefined, <<>>)
  /\ UNCHANGED <<config, calls, smPending, cpuVars, timers, heapProfilingTimer,
                 uploads>>

\* a tick that is skipped while an earlier tick of its timer is still
\* uploading (mutant)
HeapTickExclusive(t) ==
  /\ t \in timers
  /\ \A u \in InFlight : ~(u.src = "heap" /\ u.owner = t)
  /\ BagCardinality(uploads) < MaxUploads
  /\ uploads' = uploadProfile("heap", t)
  /\ Observe("heapTick", 0, undefined, undefined,
             << "Collecting heap profile", "Heap profile collected..." >>)
  /\ UNCHANGED <<config, calls, smPending, cpuVars, heapVars>>

\* a tick of interval timer t: snapshot, then uploadProfile up to its await
HeapTick(t) ==
  /\ t \in timers
  /\ BagCardinality(uploads) < MaxUploads
  /\ uploads' = uploadProfile("heap", t)
  /\ Observe("heapTick", 0, undefined, undefined,
             << "Collecting heap profile", "Heap profile collected..." >>)
  /\ UNCHANGED <<config, calls, smPending, cpuVars, heapVars>>

\* stopHeapProfiling that, finding no handle, clears every interval timer (mutant)
stopHeapProfilingSweep ==
  /\ IF heapProfilingTimer # NoTimer
       THEN /\ timers' = timers \ {heapProfilingTimer}
            /\ heapProfilingTimer' = NoTimer
            /\ lastHeapCall' = "stop"
            /\ Observe("stopHeapProfiling", 0, undefined, undefined,
                       << "Stopping heap profiling" >>)
       ELSE /\ timers' = {}
            /\ heapProfilingTimer' = NoTimer
            /\ lastHeapCall' = "stopIdle"
            /\ Observe("stopHeapProfiling", 0, undefined, undefined, <<>>)
  /\ UNCHANGED <<config, lastInit, lastCpuCall, smPending, cpuVars, heapStarting,
                 uploads>>

stopHeapProfiling ==
  /\ IF heapProfilingTimer # NoTimer
       THEN /\ timers' = timers \ {heapProfilingTimer}
            /\ heapProfilingTimer' = NoTimer
            /\ lastHeapCall' = "stop"
            /\ Observe("stopHeapProfiling", 0, undefined, undefined,
                       << "Stopping heap profiling" >>)
       ELSE /\ UNCHANGED <<timers, heapProfilingTimer>>
            /\ lastHeapCall' = "stopIdle"
            /\ Observe("stopHeapProfiling", 0, undefined, undefined, <<>>)
  /\ UNCHANGED <<config, lastInit, lastCpuCall, smPending, cpuVars, heapStarting,
                 uploads>>

\* --------------------------------------------------------------- init
init(c) ==
  /\ c.sourceMapPath # undefined => BagCardinality(smPending) < MaxSmPending
  /\ config' = [config EXCEPT
                  !.server = IF c.server # "" THEN c.server ELSE DEFAULT_SERVER,
                  !.sourceMapPath = c.sourceMapPath,
                  !.tags = c.tags]
  /\ smPending' = IF c.sourceMapPath # undefined
                    THEN smPending (+) One(c.sourceMapPath)
                    ELSE smPending
  /\ lastInit' = <<c>>
  /\ IF c.autoStart
       THEN CpuStart /\ HeapStart
       ELSE UNCHANGED <<cpuVars, heapVars, lastCpuCall, lastHeapCall>>
  /\ Observe("init", 0, undefined, undefined,
             IF c.autoStart
               THEN << "Pyroscope has started CPU Profiling", "Collecting CPU Profile" >>
                      \o HeapStartLog
               ELSE <<>>)
  /\ UNCHANGED uploads

\* a SourceMapper.create(config.sourceMapPath) promise of init resolves
SmResolved(p) ==
  /\ p \in BagToSet(smPending)
  /\ smPending' = smPending (-) One(p)
  /\ config' = [config EXCEPT !.sm = SourceMapper(p)]
  /\ Observe("mapperStored", 0, undefined, undefined, <<>>)
  /\ UNCHANGED <<calls, cpuVars, heapVars, uploads>>

\* ... or rejects: nothing is stored
SmRejected(p) ==
  /\ p \in BagToSet(smPending)
  /\ smPending' = smPending (-) One(p)
  /\ Observe("mapperFailed", 0, undefined, undefined, <<>>)
  /\ UNCHANGED <<config, calls, cpuVars, heapVars, uploads>>

\* ----------------------------------------------------- specifications
CpuEvents ==
  \/ \E l \in Loops : RoundBegin(l)
  \/ \E l \in Loops : \E i \in 1..Len(capturing[l]) : CaptureResolved(l, i)
  \/ \E l \in Loops : \E i \in 1..Len(capturing[l]) : CaptureRejected(l, i)

HeapEvents ==
  \/ HeapMapperResolved
  \/ HeapMapperRejected
  \/ \E t \in TimerIds : HeapTick(t)

UploadEvents ==
  \/ \E u \in InFlight : EncodeResolved(u)
  \/ \E u \in InFlight : EncodeRejected(u)
  \/ \E u \in InFlight : PostResolved(u)
  \/ \E u \in InFlight : \E e \in AxiosErrors : PostRejected(u, e)

\* the CPU loop with the upload pipeline
NextCpu ==
  \/ startCpuProfiling
  \/ stopCpuProfiling
  \/ CpuEvents
  \/ UploadEvents

SpecCpu == Init /\ [][NextCpu]_vars

\* setImmediate callbacks are run by the event loop: a scheduled round begins
FairSpecCpu == SpecCpu /\ \A l \in Loops : WF_vars(RoundBegin(l))

\* the heap session with the upload pipeline
NextHeap ==
  \/ startHeapProfiling
  \/ stopHeapProfiling
  \/ HeapEvents
  \/ UploadEvents

SpecHeap == Init /\ [][NextHeap]_vars

\* both sessions under init and the four lifecycle calls; the transport is
\* left out, so a profile handed to uploadProfile stays in flight
NextSession ==
  \/ \E c \in LifeConfigs : init(c)
  \/ startCpuProfiling
  \/ stopCpuProfiling
  \/ startHeapProfiling
  \/ stopHeapProfiling
  \/ CpuEvents
  \/ HeapEvents

SpecSession == Init /\ [][NextSession]_vars

\* init with every configuration, the rounds and ticks it starts and their uploads
NextUrl ==
  \/ \E c \in UrlConfigs : init(c)
  \/ startCpuProfiling
  \/ CpuEvents
  \/ HeapEvents
  \/ UploadEvents

SpecUrl == Init /\ [][NextUrl]_vars

\* init with and without source-map paths, the constructions resolving in any
\* order, and the CPU loop reading the stored mapper
NextMapper ==
  \/ \E c \in MapperConfigs : init(c)
  \/ \E p \in SourceMapPaths : SmResolved(p)
  \/ startCpuProfiling
  \/ stopCpuProfiling
  \/ CpuEvents
  \/ UploadEvents

SpecMapper == Init /\ [][NextMapper]_vars

\* the calls start, stop, start and no other: the second start is made while
\* the first loop is still alive, and every capture resolves
NextRestart ==
  \/ lastCpuCall = "none" /\ startCpuProfiling
  \/ lastCpuCall = "start" /\ Cardinality(Loops \ FreeLoops) = 1 /\ stopCpuProfiling
  \/ lastCpuCall = "stop" /\ FreeLoops # Loops /\ startCpuProfiling
  \/ \E l \in Loops : RoundBegin(l)
  \/ \E l \in Loops : \E i \in 1..Len(capturing[l]) : CaptureResolved(l, i)
  \/ UploadEvents

SpecRestart == Init /\ [][NextRestart]_vars

\* ------------------------------------------------------------- claims
AliveLoops == Loops \ FreeLoops
HeapUploads == { u \in InFlight : u.src = "heap" }
CpuUploads == { u \in InFlight : u.src = "cpu" }
Posting == { u \in InFlight : u.stage = "post" }

\* C1: in every reachable state at most one heap interval timer exists,
\* however the calls to startHeapProfiling are placed (stated as claimed)
C1_AtMostOneHeapTimer == Cardinality(timers) <= 1

\* C2: within one loop the capture of round N+1 does not begin before the
\* capture of round N has resolved: no loop ever has two captures in flight
C2_NoOverlap == \A l \in Loops : Len(capturing[l]) <= 1

\* a rescheduled round (not the first one) has begun its capture
C2_Witness ==
  /\ step.op = "profilingRound"
  /\ \E l \in Loops : Len(capturing[l]) = 1

\* C3: stopCpuProfiling sets the flag to false and leaves the captures in
\* flight alone; every capture that resolves hands its profile to
\* uploadProfile, whatever the flag says
C3_EventualStop ==
  [][ /\ step'.op = "stopCpuProfiling"
        => ~isCpuProfilingRunning' /\ capturing' = capturing /\ scheduled' = scheduled
      /\ step'.op = "captured"
        => /\ BagCardinality(uploads') = BagCardinality(uploads) + 1
           /\ BagIn(Upload("cpu", step'.arg, "encode"), uploads')
           /\ CopiesIn(Upload("cpu", step'.arg, "encode"), uploads')
                = CopiesIn(Upload("cpu", step'.arg, "encode"), uploads) + 1 ]_vars

\* a capture that was in flight at the stop has resolved, after the stop,
\* and its profile is with uploadProfile
C3_Witness ==
  /\ step.op = "captured"
  /\ lastCpuCall = "stop"
  /\ ~isCpuProfilingRunning
  /\ BagIn(Upload("cpu", step.arg, "encode"), uploads)

\* C4: while the flag is set, a resolved capture schedules the next round of
\* its loop before and independently of the upload, and every scheduled round
\* begins its capture, whatever becomes of the uploads
C4_LoopSurvivesUpload ==
  /\ [][ step'.op = "captured" /\ isCpuProfilingRunning
           => scheduled'[step'.arg] = scheduled[step'.arg] + 1 ]_vars
  /\ \A l \in Loops : (scheduled[l] > 0) ~> (Len(capturing[l]) > 0)

\* an upload has just failed in encoding while the next round of the only
\* loop alive is already capturing
C4_Witness ==
  /\ step.op = "encodeFailed"
  /\ isCpuProfilingRunning
  /\ \E l \in Loops : AliveLoops = {l} /\ Len(capturing[l]) = 1

\* C5: a failed POST of any of the three classes leaves the uploadProfile
\* call resolved, and the class decides the log entry
C5_NetworkErrorsHandled ==
  step.op = "postFailed" =>
    /\ settled = "resolved"
    /\ LET e == step.arg IN
         /\ e.response
              => /\ logged[1] = "Pyroscope received error while ingesting data to server"
                 /\ logged[2] = e.data
         /\ ~e.response /\ e.request
              => logged[1] = "Error when ingesting data to server: " \o e.message
         /\ ~e.response /\ ~e.request
              => logged[1] = "Error " \o e.message

\* the server has answered outside 2xx and the call has resolved
C5_Witness ==
  /\ step.op = "postFailed"
  /\ step.arg.response /\ step.arg.request
  /\ settled = "resolved"

\* the url the claim expects for a configuration c passed to init
ClaimedUrl(c) ==
  c.server \o "/ingest?name=" \o c.name \o "{" \o ArrayToString(tagList(c.tags))
    \o "}&sampleRate=100"

\* C6: after init(c) every POST goes to the url built from the server, the
\* name and the tags of c (stated as claimed)
C6_UrlFromInit ==
  step.op = "encoded" /\ lastInit # <<>> => request = ClaimedUrl(lastInit[1])

\* C7: after a stopHeapProfiling that cleared a handle, and until
\* startHeapProfiling is called again, no heap tick begins (stated as claimed)
C7_NoTickAfterStop == lastHeapCall = "stop" => step.op # "heapTick"

\* C8: stopHeapProfiling called while no handle is stored changes nothing of
\* the heap session, the CPU loop, the configuration or the uploads
C8_StopIdleIsNoOp ==
  [][ step'.op = "stopHeapProfiling" /\ heapProfilingTimer = NoTimer
        => UNCHANGED progVars ]_vars

\* stopHeapProfiling has run with no handle stored, in a state where the
\* CPU loop runs and an interval timer exists that no handle refers to
C8_Witness ==
  /\ step.op = "stopHeapProfiling"
  /\ lastHeapCall = "stopIdle"
  /\ isCpuProfilingRunning
  /\ timers # {}

\* C9 as claimed, for autoStart true: when init returns, the CPU loop is
\* RUNNING with a capture begun and the heap timer handle is present
C9_AutoStartHandlePresent ==
  step.op = "init" /\ lastInit[1].autoStart =>
    /\ isCpuProfilingRunning
    /\ \E l \in Loops : Len(capturing[l]) > 0
    /\ heapProfilingTimer # NoTimer

\* C9 amended: init with autoStart sets the flag and begins a capture in a
\* new loop; the heap session is left as it was when a handle is stored, and
\* otherwise one more startHeapProfiling call is left awaiting its source
\* mapper, with the handle still absent; init without autoStart leaves both
\* sessions unchanged
C9_AutoStart ==
  [][ step'.op = "init" =>
        IF lastInit'[1].autoStart
          THEN /\ isCpuProfilingRunning'
               /\ \E l \in Loops :
                    /\ capturing[l] = <<>> /\ scheduled[l] = 0
                    /\ capturing' = [capturing EXCEPT ![l] = << config.sm >>]
               /\ scheduled' = scheduled
               /\ IF heapProfilingTimer # NoTimer
                    THEN UNCHANGED heapVars
                    ELSE /\ heapStarting' = heapStarting + 1
                         /\ heapProfilingTimer' = NoTimer
                         /\ timers' = timers
          ELSE UNCHANGED <<cpuVars, heapVars>> ]_vars

\* init with autoStart has returned: the loop runs, the heap start is pending
\* and no handle is stored
C9_Witness ==
  /\ step.op = "init" /\ lastInit[1].autoStart
  /\ isCpuProfilingRunning
  /\ heapStarting > 0
  /\ heapProfilingTimer = NoTimer

\* C10: an encoding failure ends the uploadProfile call rejected; no POST is
\* issued for the profile, which leaves the pipeline
C10_EncodingFailureRejects ==
  [][ step'.op = "encodeFailed" =>
        /\ settled' = "rejected"
        /\ request' = undefined
        /\ BagCardinality(uploads') = BagCardinality(uploads) - 1
        /\ \A u \in Posting : CopiesIn(u, uploads') = CopiesIn(u, uploads)
        /\ \A u \in BagToSet(uploads') : CopiesIn(u, uploads') <= CopiesIn(u, uploads) ]_vars

\* an encoding failure has ended a call rejected
C10_Witness ==
  /\ step.op = "encodeFailed"
  /\ settled = "rejected"
  /\ request = undefined

\* C11: startHeapProfiling called while a handle is stored returns at once:
\* no source mapper is awaited (so no sampler start and no timer can follow
\* from this call), the timers and the handle stay as they are, nothing is logged
C11_StartWhileRunningIsNoOp ==
  [][ step'.op = "startHeapProfiling" /\ heapProfilingTimer # NoTimer
        => UNCHANGED progVars /\ logged' = <<>> ]_vars

\* startHeapProfiling has returned at once, a handle being stored
C11_Witness ==
  /\ step.op = "startHeapProfiling"
  /\ heapProfilingTimer # NoTimer
  /\ heapProfilingTimer \in timers
  /\ logged = <<>>
  /\ heapStarting = 0

\* captures in flight over all loops
RECURSIVE CapturesIn(_)
CapturesIn(S) ==
  IF S = {} THEN 0
  ELSE LET l == CHOOSE x \in S : TRUE IN Len(capturing[l]) + CapturesIn(S \ {l})

\* C12: startCpuProfiling has no already-running test: every call adds a loop
\* of its own with a capture in flight beside the loops alive, and while the
\* flag is set every loop reschedules itself when its capture resolves
C12_StartAddsLoop ==
  [][ /\ step'.op = "startCpuProfiling"
        => /\ NewLoop \notin AliveLoops
           /\ AliveLoops' = AliveLoops \cup {NewLoop}
           /\ capturing' = [capturing EXCEPT ![NewLoop] = << config.sm >>]
      /\ step'.op = "captured" /\ isCpuProfilingRunning
        => step'.arg \in AliveLoops' /\ AliveLoops \subseteq AliveLoops' ]_vars

\* after a second start with no stop, two loops have a capture in flight at
\* once, one of them begun by a rescheduled round
C12_Witness ==
  /\ lastCpuCall = "start"
  /\ isCpuProfilingRunning
  /\ step.op = "profilingRound"
  /\ Cardinality(AliveLoops) = 2
  /\ \A l \in AliveLoops : Len(capturing[l]) = 1

\* C13: ticks of one timer have no mutual exclusion: whenever a timer is set
\* a tick of it can begin, also while uploads of its earlier ticks are pending
C13_TicksMayOverlap ==
  \A t \in timers : BagCardinality(uploads) < MaxUploads => ENABLED HeapTick(t)

\* a tick has begun while the upload of an earlier tick of the same timer is
\* pending: two uploads of one timer are in flight
C13_Witness ==
  /\ step.op = "heapTick"
  /\ \E t \in timers :
       BagCardinality([u \in { x \in InFlight : x.src = "heap" /\ x.owner = t }
                         |-> CopiesIn(u, uploads)]) >= 2

\* a round of the CPU loop has just begun its capture
RoundOps == { "startCpuProfiling", "profilingRound" }

\* C14: a capture round that begins while a source-mapper construction of an
\* init call is still pending is started with no source mapper (stated as claimed)
C14_NoMapperWhilePending ==
  [][ step'.op \in RoundOps /\ smPending # EmptyBag
        => \E l \in Loops : capturing' = [capturing EXCEPT ![l] = Append(@, undefined)]
    ]_vars

\* the source mapper that belongs to the paths of configuration c
MapperFor(c) ==
  IF c.sourceMapPath = undefined THEN undefined ELSE SourceMapper(c.sourceMapPath)

\* C18: once no source-mapper construction is pending, the stored mapper is
\* the one for the paths of the most recent init call, and absent if that
\* call supplied no paths (stated as claimed)
C18_MapperOfLatestInit ==
  lastInit # <<>> /\ smPending = EmptyBag => config.sm = MapperFor(lastInit[1])

\* C15: when stopHeapProfiling was the last heap lifecycle call and no
\* startHeapProfiling call and no tick upload is pending any more, no handle is
\* stored and no interval timer is left (stated as claimed)
C15_StoppedAfterLastStop ==
  lastHeapCall \in {"stop", "stopIdle"} /\ heapStarting = 0 /\ HeapUploads = {}
    => heapProfilingTimer = NoTimer /\ timers = {}

\* C16 as claimed: once stopCpuProfiling was the last CPU lifecycle call, no
\* round begins a capture
C16_NoCaptureAfterStop == lastCpuCall = "stop" => step.op # "profilingRound"

\* the loop of the first startCpuProfiling call
OldLoop == CHOOSE l \in Loops : \A m \in Loops : l <= m

\* C17: after start, stop, start, once a capture of the first loop has
\* resolved after the second start (so the capture that was in flight at the
\* stop has resolved), the first loop is gone: one loop is left (stated as
\* claimed)
C17_RestartLeavesOneLoop ==
  /\ lastCpuCall = "start"
  /\ step = [op |-> "captured", arg |-> OldLoop]
  /\ AliveLoops \ {OldLoop} # {}
  => /\ OldLoop \notin AliveLoops
     /\ CapturesIn(Loops) <= 1

\* C19: whenever the running flag is set, some loop has a capture in flight
\* or a round scheduled (stated as claimed)
C19_FlagMeansLiveLoop == isCpuProfilingRunning => AliveLoops # {}

\* C20: if from some point on stopCpuProfiling stays the last CPU lifecycle
\* call, and no loop keeps a capture in flight for ever, then from some point
\* on no capture is in flight and no round is scheduled
C20_StopTerminates ==
  ( /\ <>[](lastCpuCall = "stop")
    /\ \A l \in Loops : []<>(capturing[l] = <<>>) )
  => <>[](AliveLoops = {})

\* after the stop every loop has ended: the last capture has resolved and
\* nothing is scheduled
C20_Witness ==
  /\ lastCpuCall = "stop"
  /\ step.op = "captured"
  /\ AliveLoops = {}

====
